---------------------------- MODULE Spec2Model ----------------------------
(***************************************************************************)
(* Model of the two model-weight download scripts:                         *)
(*   downlaod_models.py            static list, sequential ("static")      *)
(*   fetch_and_download_models.py  hub listing, filter, one thread per     *)
(*                                 matching file ("dynamic")               *)
(* File names and paths are sequences of one-character strings, so that    *)
(* `in`, endswith, os.path.basename and os.path.join are computed.         *)
(* The hub, the filesystem and the log file are the environment: a hub     *)
(* call or a copy/move either succeeds or raises, chosen                   *)
(* nondeterministically.  The log file is a bag of lines (the order of     *)
(* lines written by different threads is not kept).                        *)
(***************************************************************************)
EXTENDS Naturals, Sequences, FiniteSets, Bags, TLC

VARIABLES
    flow,             \* which script runs: "static" or "dynamic"
    run,              \* 1 = first run of the script, 2 = the run after it
    pc,               \* position of the main thread
    logDir,           \* does /app/logs exist
    dirs,             \* existing directories (absolute paths)
    files,            \* path -> content, the files under the target folder
    cache,            \* file names present in ./cache_folder
    logFile,          \* bag of lines of /app/logs/download_models.log
    hubFiles,         \* what api.list_repo_files returns for REPO_ID
    QUANTIZATION,     \* the quantization tag (environment)
    MODEL_FILES,      \* filenames of the static list
    listing,          \* "none" | "ok" | "error": outcome of the listing call
    quantized_files,  \* result of fetch_model_files
    jobs,             \* the per-file calls made so far in this run
    joined,           \* threads joined so far by parallel_download
    first             \* what the first run left (recorded when run 2 starts)

vars == <<flow, run, pc, logDir, dirs, files, cache, logFile, hubFiles,
          QUANTIZATION, MODEL_FILES, listing, quantized_files, jobs, joined,
          first>>

-----------------------------------------------------------------------------
(* Bounds *)

\* most files in a hub listing / entries in the static list
MaxFiles == 2

\* most names in a listing handed to the filter alone (SpecFilter)
MaxListing == 2

-----------------------------------------------------------------------------
(* Strings *)

TARGET_FOLDER == <<"/", "a", "p", "p", "/", "m", "o", "d", "e", "l", "s">>

GGUF == <<".", "g", "g", "u", "f">>

Q8 == <<"Q", "8">>
Q4 == <<"Q", "4">>

NameQ8    == <<"Q", "8", ".", "g", "g", "u", "f">>
NameDirQ8 == <<"d", "/", "Q", "8", ".", "g", "g", "u", "f">>
NameSubQ8 == <<"e", "/", "Q", "8", ".", "g", "g", "u", "f">>
NameQ4    == <<"Q", "4", ".", "g", "g", "u", "f">>
NameMd    == <<"Q", "8", ".", "m", "d">>

\* the file names the hub may list in the flows
Names == {NameQ8, NameDirQ8, NameSubQ8, NameQ4, NameMd}

\* further names and tags, for the filter alone
FilterNames == Names \cup
    { <<".", "g", "g", "u", "f", "Q", "8">>,
      <<"g", "g", "u", "f">>,
      <<"Q", ".", "8", ".", "g", "g", "u", "f">>,
      <<"Q", "8", ".", "g", "g", "u", "f", "x">>,
      GGUF }

FilterTags == {Q8, Q4, <<>>, <<"8", ".">>, <<"Q", "8", ".", "g", "g", "u", "f", "x", "y">>}

SeqsUpTo(S, n) == UNION {[1..k -> S] : k \in 0..n}

\* python: sub in s
StrIn(sub, s) ==
    \E i \in 1..(Len(s) + 1) :
        /\ i + Len(sub) - 1 <= Len(s)
        /\ SubSeq(s, i, i + Len(sub) - 1) = sub

\* python: s.endswith(suffix)
EndsWith(s, suffix) ==
    /\ Len(suffix) <= Len(s)
    /\ SubSeq(s, Len(s) - Len(suffix) + 1, Len(s)) = suffix

\* index of the last "/" of p, 0 when there is none
LastSlash(p) ==
    LET S == {i \in 1..Len(p) : p[i] = "/"}
    IN  IF S = {} THEN 0 ELSE CHOOSE i \in S : \A k \in S : k <= i

\* os.path.basename
basename(p) == SubSeq(p, LastSlash(p) + 1, Len(p))

\* os.path.dirname (of the paths used here: no trailing or doubled slashes)
dirname(p) == IF LastSlash(p) <= 1 THEN SubSeq(p, 1, LastSlash(p))
              ELSE SubSeq(p, 1, LastSlash(p) - 1)

\* os.path.join(a, b)
join(a, b) ==
    IF b # <<>> /\ b[1] = "/" THEN b
    ELSE IF a = <<>> \/ a[Len(a)] = "/" THEN a \o b
    ELSE a \o <<"/">> \o b

-----------------------------------------------------------------------------
(* Filesystem contents and log lines *)

Absent     == [kind |-> "absent",  of |-> <<>>]
Old        == [kind |-> "old",     of |-> <<>>]
Full(n)    == [kind |-> "full",    of |-> n]
Partial(n) == [kind |-> "partial", of |-> n]
Unset      == [kind |-> "unset",   of |-> <<>>]

\* os.path.exists
exists(path) == files[path] # Absent

\* target path of download_and_save_model
SaveTarget(filename) == join(TARGET_FOLDER, filename)

\* target path of download_file
FileTarget(filename) == join(TARGET_FOLDER, basename(filename))

Target(filename) ==
    IF flow = "static" THEN SaveTarget(filename) ELSE FileTarget(filename)

Paths == {join(TARGET_FOLDER, n) : n \in Names}
            \cup {join(TARGET_FOLDER, basename(n)) : n \in Names}

\* target paths that may hold a file before the first run
InitialTargets == {join(TARGET_FOLDER, NameQ8)}

Line(msg, arg) == [msg |-> msg, arg |-> arg]

\* log(message), when the log file can be opened
Logged(lines) == logFile (+) lines
Log1(msg, arg) == Logged(SetToBag({Line(msg, arg)}))

-----------------------------------------------------------------------------
(* Jobs *)

Terminal(j) == jobs[j].st \in {"skipped", "saved", "failed"}

NewJob(filename, st, pre) ==
    [name |-> filename, st |-> st, pre |-> pre, checked |-> FALSE, fault |-> FALSE]

SetJob(j, st) == [jobs EXCEPT ![j].st = st]


-----------------------------------------------------------------------------
(* Initial states *)

Injective(s) == \A a, b \in DOMAIN s : s[a] = s[b] => a = b

NoFirst == [set |-> FALSE, files |-> [p \in Paths |-> Absent],
            sts |-> <<>>, listing |-> "none"]

\* the target folder with a sub-directory in it: only the static script, which
\* joins the whole filename onto the target folder, can tell
SubDirs == IF flow = "static"
             THEN {{TARGET_FOLDER, join(TARGET_FOLDER, <<"d">>)}}
             ELSE {}

InitFs ==
    /\ logDir \in BOOLEAN
    /\ dirs \in {{}, {TARGET_FOLDER}} \cup SubDirs
    /\ \E present \in SUBSET InitialTargets :
          /\ present # {} => TARGET_FOLDER \in dirs
          /\ files = [p \in Paths |-> IF p \in present THEN Old ELSE Absent]
    /\ cache = {}
    /\ logFile = EmptyBag

InitRun ==
    /\ run = 1
    /\ pc = "setup"
    /\ listing = "none"
    /\ quantized_files = <<>>
    /\ jobs = <<>>
    /\ joined = 0
    /\ first = NoFirst

InitStatic ==
    /\ flow = "static"
    /\ MODEL_FILES \in {s \in SeqsUpTo(Names, MaxFiles) : s # <<>> /\ Injective(s)}
    /\ hubFiles = <<>>
    /\ QUANTIZATION = Q8

InitDynamic ==
    /\ flow = "dynamic"
    /\ MODEL_FILES = <<>>
    /\ hubFiles \in {s \in SeqsUpTo(Names, MaxFiles) : Injective(s)}
    /\ QUANTIZATION \in {Q8, Q4}

Init == (InitStatic \/ InitDynamic) /\ InitFs /\ InitRun

-----------------------------------------------------------------------------
(* downlaod_models.py *)

\* os.makedirs("/app/logs"), os.makedirs("/app/models")
StaticMakedirs ==
    /\ flow = "static" /\ pc = "setup"
    /\ logDir' = TRUE
    /\ dirs' = dirs \cup {TARGET_FOLDER}
    /\ pc' = "start"
    /\ UNCHANGED <<flow, run, files, cache, logFile, hubFiles, QUANTIZATION,
                   MODEL_FILES, listing, quantized_files, jobs, joined, first>>

\* log("Download script started."): open(LOG_FILE, "a") raises when the
\* directory of the log file is missing, and nothing catches it here
StaticStart ==
    /\ flow = "static" /\ pc = "start"
    /\ IF logDir
         THEN logFile' = Log1("Download script started.", <<>>) /\ pc' = "loop"
         ELSE logFile' = logFile /\ pc' = "crashed"
    /\ UNCHANGED <<flow, run, logDir, dirs, files, cache, hubFiles, QUANTIZATION,
                   MODEL_FILES, listing, quantized_files, jobs, joined, first>>

\* the loop calls download_and_save_model for the next model, once the
\* previous call has returned; the call logs its start
SaveCall ==
    /\ flow = "static" /\ pc = "loop"
    /\ Len(jobs) < Len(MODEL_FILES)
    /\ jobs # <<>> => Terminal(Len(jobs))
    /\ LET filename == MODEL_FILES[Len(jobs) + 1]
       IN  /\ jobs' = Append(jobs, NewJob(filename, "downloading",
                                          files[SaveTarget(filename)]))
           /\ logFile' = Log1("Starting download of", filename)
    /\ UNCHANGED <<flow, run, pc, logDir, dirs, files, cache, hubFiles,
                   QUANTIZATION, MODEL_FILES, listing, quantized_files, joined,
                   first>>

\* hf_hub_download returns the path of the cached file
SaveFetch(j) ==
    /\ flow = "static" /\ jobs[j].st = "downloading"
    /\ cache' = cache \cup {jobs[j].name}
    /\ jobs' = SetJob(j, "fetched")
    /\ UNCHANGED <<flow, run, pc, logDir, dirs, files, logFile, hubFiles,
                   QUANTIZATION, MODEL_FILES, listing, quantized_files, joined,
                   first>>
\* mutant of SaveFetchRaises: no except clause, the error leaves the loop
SaveFetchRaisesUncaught(j) ==
    /\ flow = "static" /\ jobs[j].st = "downloading"
    /\ jobs' = SetJob(j, "failed")
    /\ pc' = "crashed"
    /\ UNCHANGED <<flow, run, logDir, dirs, files, cache, logFile, hubFiles,
                   QUANTIZATION, MODEL_FILES, listing, quantized_files, joined,
                   first>>

\* hf_hub_download raises; the except clause logs and the call returns
SaveFetchRaises(j) ==
    /\ flow = "static" /\ jobs[j].st = "downloading"
    /\ jobs' = SetJob(j, "failed")
    /\ logFile' = Log1("Error downloading", jobs[j].name)
    /\ UNCHANGED <<flow, run, pc, logDir, dirs, files, cache, hubFiles,
                   QUANTIZATION, MODEL_FILES, listing, quantized_files, joined,
                   first>>
\* mutant of SaveExists: the existence check is left out
SaveExistsNoCheck(j) ==
    /\ flow = "static" /\ jobs[j].st = "fetched"
    /\ jobs' = [jobs EXCEPT ![j].st = "copying", ![j].checked = TRUE]
    /\ logFile' = Log1("Copying", SaveTarget(jobs[j].name))
    /\ UNCHANGED <<flow, run, pc, logDir, dirs, files, cache, hubFiles,
                   QUANTIZATION, MODEL_FILES, listing, quantized_files, joined,
                   first>>

\* target_path = os.path.join(target_folder, filename); os.path.exists
SaveExists(j) ==
    /\ flow = "static" /\ jobs[j].st = "fetched"
    /\ LET target_path == SaveTarget(jobs[j].name)
       IN  IF exists(target_path)
             THEN /\ jobs' = SetJob(j, "skipped")
                  /\ logFile' = Log1("File already exists. Skipping", target_path)
             ELSE /\ jobs' = [jobs EXCEPT ![j].st = "copying", ![j].checked = TRUE]
                  /\ logFile' = Log1("Copying", target_path)
    /\ UNCHANGED <<flow, run, pc, logDir, dirs, files, cache, hubFiles,
                   QUANTIZATION, MODEL_FILES, listing, quantized_files, joined,
                   first>>

\* shutil.copy(file_path, target_path): raises when the source is gone or the
\* directory of the target is missing, else writes the target
SaveCopy(j) ==
    /\ flow = "static" /\ jobs[j].st = "copying"
    /\ LET filename    == jobs[j].name
           target_path == SaveTarget(filename)
       IN  IF filename \in cache /\ dirname(target_path) \in dirs
             THEN /\ files' = [files EXCEPT ![target_path] = Full(filename)]
                  /\ jobs' = SetJob(j, "saved")
                  /\ logFile' = Log1("Successfully saved", filename)
             ELSE /\ files' = files
                  /\ jobs' = SetJob(j, "failed")
                  /\ logFile' = Log1("Error downloading", filename)
    /\ UNCHANGED <<flow, run, pc, logDir, dirs, cache, hubFiles, QUANTIZATION,
                   MODEL_FILES, listing, quantized_files, joined, first>>

\* shutil.copy raises for a reason of the environment: before the target is
\* opened (permission), or while writing it (disk full), which leaves the
\* bytes written so far at the target
SaveCopyRaises(j) ==
    /\ flow = "static" /\ jobs[j].st = "copying"
    /\ LET filename    == jobs[j].name
           target_path == SaveTarget(filename)
       IN  /\ \E partial \in BOOLEAN :
                 /\ partial => filename \in cache /\ dirname(target_path) \in dirs
                 /\ files' = IF partial
                               THEN [files EXCEPT ![target_path] = Partial(filename)]
                               ELSE files
           /\ jobs' = [jobs EXCEPT ![j].st = "failed", ![j].fault = TRUE]
           /\ logFile' = Log1("Error downloading", filename)
    /\ UNCHANGED <<flow, run, pc, logDir, dirs, cache, hubFiles, QUANTIZATION,
                   MODEL_FILES, listing, quantized_files, joined, first>>

\* the loop is over: log("Download script finished.")
StaticFinish ==
    /\ flow = "static" /\ pc = "loop"
    /\ Len(jobs) = Len(MODEL_FILES)
    /\ jobs # <<>> => Terminal(Len(jobs))
    /\ logFile' = Log1("Download script finished.", <<>>)
    /\ pc' = "done"
    /\ UNCHANGED <<flow, run, logDir, dirs, files, cache, hubFiles, QUANTIZATION,
                   MODEL_FILES, listing, quantized_files, jobs, joined, first>>

-----------------------------------------------------------------------------
(* fetch_and_download_models.py *)

\* module level: os.makedirs(TARGET_FOLDER, exist_ok=True); the directory of
\* LOG_FILE is not created
DynamicMakedirs ==
    /\ flow = "dynamic" /\ pc = "setup"
    /\ dirs' = dirs \cup {TARGET_FOLDER}
    /\ pc' = "start"
    /\ UNCHANGED <<flow, run, logDir, files, cache, logFile, hubFiles,
                   QUANTIZATION, MODEL_FILES, listing, quantized_files, jobs,
                   joined, first>>

\* log("Starting GGUF model download process..."): open(LOG_FILE, "a") raises
\* when the directory of the log file is missing, and nothing catches it here
DynamicStart ==
    /\ flow = "dynamic" /\ pc = "start"
    /\ IF logDir
         THEN /\ logFile' = Log1("Starting GGUF model download process...", <<>>)
              /\ pc' = "list"
         ELSE logFile' = logFile /\ pc' = "crashed"
    /\ UNCHANGED <<flow, run, logDir, dirs, files, cache, hubFiles, QUANTIZATION,
                   MODEL_FILES, listing, quantized_files, jobs, joined, first>>
\* mutant of Keep: `or` for `and`
KeepEither(file, quantization) == StrIn(quantization, file) \/ EndsWith(file, GGUF)

\* file is kept when: quantization in file and file.endswith(".gguf")
Keep(file, quantization) == StrIn(quantization, file) /\ EndsWith(file, GGUF)

\* [file for file in files if ...]
Quantized(fileList, quantization) ==
    SelectSeq(fileList, LAMBDA file : Keep(file, quantization))

\* fetch_model_files, the listing call returning: filter, log, return;
\* then `if quantized_files:` of the main block
FetchModelFiles ==
    /\ flow = "dynamic" /\ pc = "list"
    /\ listing' = "ok"
    /\ quantized_files' = Quantized(hubFiles, QUANTIZATION)
    /\ logFile' = Logged(SetToBag({Line("Fetching file list from repository", <<>>)})
                         (+) SetToBag({Line("Found files for quantization level",
                                            QUANTIZATION)}))
    /\ pc' = IF quantized_files' # <<>> THEN "spawn" ELSE "nofiles"
    /\ UNCHANGED <<flow, run, logDir, dirs, files, cache, hubFiles, QUANTIZATION,
                   MODEL_FILES, jobs, joined, first>>
\* mutant of FetchModelFilesRaises: the except clause returns the names anyway
FetchModelFilesRaisesReturnsFiles ==
    /\ flow = "dynamic" /\ pc = "list"
    /\ listing' = "error"
    /\ quantized_files' = Quantized(hubFiles, QUANTIZATION)
    /\ logFile' = Log1("Failed to fetch files from repository", <<>>)
    /\ pc' = IF quantized_files' # <<>> THEN "spawn" ELSE "nofiles"
    /\ UNCHANGED <<flow, run, logDir, dirs, files, cache, hubFiles, QUANTIZATION,
                   MODEL_FILES, jobs, joined, first>>

\* fetch_model_files, the listing call raising: log, return []
FetchModelFilesRaises ==
    /\ flow = "dynamic" /\ pc = "list"
    /\ listing' = "error"
    /\ quantized_files' = <<>>
    /\ logFile' = Logged(SetToBag({Line("Fetching file list from repository", <<>>)})
                         (+) SetToBag({Line("Failed to fetch files from repository",
                                            <<>>)}))
    /\ pc' = IF quantized_files' # <<>> THEN "spawn" ELSE "nofiles"
    /\ UNCHANGED <<flow, run, logDir, dirs, files, cache, hubFiles, QUANTIZATION,
                   MODEL_FILES, jobs, joined, first>>

\* else: log("No files found ...")
NoFilesFound ==
    /\ flow = "dynamic" /\ pc = "nofiles"
    /\ logFile' = Log1("No files found for quantization level", QUANTIZATION)
    /\ pc' = "end"
    /\ UNCHANGED <<flow, run, logDir, dirs, files, cache, hubFiles, QUANTIZATION,
                   MODEL_FILES, listing, quantized_files, jobs, joined, first>>

\* parallel_download, first loop: create and start the thread of the next file
ThreadStart ==
    /\ flow = "dynamic" /\ pc = "spawn"
    /\ Len(jobs) < Len(quantized_files)
    /\ jobs' = Append(jobs, NewJob(quantized_files[Len(jobs) + 1], "pending", Unset))
    /\ pc' = IF Len(jobs') = Len(quantized_files) THEN "join" ELSE "spawn"
    /\ UNCHANGED <<flow, run, logDir, dirs, files, cache, logFile, hubFiles,
                   QUANTIZATION, MODEL_FILES, listing, quantized_files, joined,
                   first>>
\* mutant of ThreadJoin: the join does not wait for the thread
ThreadJoinNoWait ==
    /\ flow = "dynamic" /\ pc = "join"
    /\ joined < Len(jobs)
    /\ joined' = joined + 1
    /\ pc' = IF joined' = Len(jobs) THEN "end" ELSE "join"
    /\ UNCHANGED <<flow, run, logDir, dirs, files, cache, logFile, hubFiles,
                   QUANTIZATION, MODEL_FILES, listing, quantized_files, jobs,
                   first>>

\* parallel_download, second loop: thread.join() returns once the thread has
\* ended; after the last join the function returns
ThreadJoin ==
    /\ flow = "dynamic" /\ pc = "join"
    /\ joined < Len(jobs)
    /\ Terminal(joined + 1)
    /\ joined' = joined + 1
    /\ pc' = IF joined' = Len(jobs) THEN "end" ELSE "join"
    /\ UNCHANGED <<flow, run, logDir, dirs, files, cache, logFile, hubFiles,
                   QUANTIZATION, MODEL_FILES, listing, quantized_files, jobs,
                   first>>

\* log("GGUF model download process completed.")
DynamicEnd ==
    /\ flow = "dynamic" /\ pc = "end"
    /\ logFile' = Log1("GGUF model download process completed.", <<>>)
    /\ pc' = "done"
    /\ UNCHANGED <<flow, run, logDir, dirs, files, cache, hubFiles, QUANTIZATION,
                   MODEL_FILES, listing, quantized_files, jobs, joined, first>>

\* a started thread begins download_file: log("Starting download for ...")
FileCall(j) ==
    /\ flow = "dynamic" /\ jobs[j].st = "pending"
    /\ jobs' = [jobs EXCEPT ![j].st = "downloading",
                            ![j].pre = files[FileTarget(jobs[j].name)]]
    /\ logFile' = Log1("Starting download for", jobs[j].name)
    /\ UNCHANGED <<flow, run, pc, logDir, dirs, files, cache, hubFiles,
                   QUANTIZATION, MODEL_FILES, listing, quantized_files, joined,
                   first>>

\* hf_hub_download returns the path of the cached file
FileFetch(j) ==
    /\ flow = "dynamic" /\ jobs[j].st = "downloading"
    /\ cache' = cache \cup {jobs[j].name}
    /\ jobs' = SetJob(j, "fetched")
    /\ UNCHANGED <<flow, run, pc, logDir, dirs, files, logFile, hubFiles,
                   QUANTIZATION, MODEL_FILES, listing, quantized_files, joined,
                   first>>

\* hf_hub_download raises; the except clause logs and the call returns
FileFetchRaises(j) ==
    /\ flow = "dynamic" /\ jobs[j].st = "downloading"
    /\ jobs' = SetJob(j, "failed")
    /\ logFile' = Log1("Failed to download", jobs[j].name)
    /\ UNCHANGED <<flow, run, pc, logDir, dirs, files, cache, hubFiles,
                   QUANTIZATION, MODEL_FILES, listing, quantized_files, joined,
                   first>>
\* mutant of FileExists: the existence check is left out
FileExistsNoCheck(j) ==
    /\ flow = "dynamic" /\ jobs[j].st = "fetched"
    /\ jobs' = [jobs EXCEPT ![j].st = "copying", ![j].checked = TRUE]
    /\ logFile' = Log1("Copying", FileTarget(jobs[j].name))
    /\ UNCHANGED <<flow, run, pc, logDir, dirs, files, cache, hubFiles,
                   QUANTIZATION, MODEL_FILES, listing, quantized_files, joined,
                   first>>

\* target_path = os.path.join(target_folder, os.path.basename(filename));
\* os.path.exists
FileExists(j) ==
    /\ flow = "dynamic" /\ jobs[j].st = "fetched"
    /\ LET target_path == FileTarget(jobs[j].name)
       IN  IF exists(target_path)
             THEN /\ jobs' = SetJob(j, "skipped")
                  /\ logFile' = Log1("File already exists. Skipping", target_path)
             ELSE /\ jobs' = [jobs EXCEPT ![j].st = "copying", ![j].checked = TRUE]
                  /\ logFile' = Log1("Copying", target_path)
    /\ UNCHANGED <<flow, run, pc, logDir, dirs, files, cache, hubFiles,
                   QUANTIZATION, MODEL_FILES, listing, quantized_files, joined,
                   first>>

\* os.rename(file_path, target_path): raises when the source is gone or the
\* directory of the target is missing; else the target is the moved file
\* (replacing a file already there) and the cache entry is gone
FileRename(j) ==
    /\ flow = "dynamic" /\ jobs[j].st = "copying"
    /\ LET filename    == jobs[j].name
           target_path == FileTarget(filename)
       IN  IF filename \in cache /\ dirname(target_path) \in dirs
             THEN /\ files' = [files EXCEPT ![target_path] = Full(filename)]
                  /\ cache' = cache \ {filename}
                  /\ jobs' = SetJob(j, "saved")
                  /\ logFile' = Log1("Successfully downloaded and saved", filename)
             ELSE /\ files' = files
                  /\ cache' = cache
                  /\ jobs' = SetJob(j, "failed")
                  /\ logFile' = Log1("Failed to download", filename)
    /\ UNCHANGED <<flow, run, pc, logDir, dirs, hubFiles, QUANTIZATION,
                   MODEL_FILES, listing, quantized_files, joined, first>>

\* os.rename raises for a reason of the environment (other device,
\* permission): nothing is moved
FileRenameRaises(j) ==
    /\ flow = "dynamic" /\ jobs[j].st = "copying"
    /\ jobs' = [jobs EXCEPT ![j].st = "failed", ![j].fault = TRUE]
    /\ logFile' = Log1("Failed to download", jobs[j].name)
    /\ UNCHANGED <<flow, run, pc, logDir, dirs, files, cache, hubFiles,
                   QUANTIZATION, MODEL_FILES, listing, quantized_files, joined,
                   first>>

-----------------------------------------------------------------------------
(* The script is run again once it has ended; the filesystem, the cache and  *)
(* the log file are what the first run left.                                 *)

Rerun ==
    /\ pc = "done" /\ run = 1
    /\ run' = 2
    /\ pc' = "setup"
    /\ first' = [set |-> TRUE, files |-> files, listing |-> listing,
                 sts |-> [j \in DOMAIN jobs |-> jobs[j].st]]
    /\ listing' = "none"
    /\ quantized_files' = <<>>
    /\ jobs' = <<>>
    /\ joined' = 0
    /\ UNCHANGED <<flow, logDir, dirs, files, cache, logFile, hubFiles,
                   QUANTIZATION, MODEL_FILES>>

-----------------------------------------------------------------------------
(* Specifications *)

Next ==
    \/ StaticMakedirs
    \/ StaticStart
    \/ SaveCall
    \/ \E j \in DOMAIN jobs : SaveFetch(j)
    \/ \E j \in DOMAIN jobs : SaveFetchRaises(j)
    \/ \E j \in DOMAIN jobs : SaveExists(j)
    \/ \E j \in DOMAIN jobs : SaveCopy(j)
    \/ \E j \in DOMAIN jobs : SaveCopyRaises(j)
    \/ StaticFinish
    \/ DynamicMakedirs
    \/ DynamicStart
    \/ FetchModelFiles
    \/ FetchModelFilesRaises
    \/ NoFilesFound
    \/ ThreadStart
    \/ \E j \in DOMAIN jobs : FileCall(j)
    \/ \E j \in DOMAIN jobs : FileFetch(j)
    \/ \E j \in DOMAIN jobs : FileFetchRaises(j)
    \/ \E j \in DOMAIN jobs : FileExists(j)
    \/ \E j \in DOMAIN jobs : FileRename(j)
    \/ \E j \in DOMAIN jobs : FileRenameRaises(j)
    \/ ThreadJoin
    \/ DynamicEnd
    \/ Rerun

Spec == Init /\ [][Next]_vars

-----------------------------------------------------------------------------
(* The filter alone: the dynamic script up to the return of                  *)
(* fetch_model_files, over more names and tags.                              *)

InitFilter ==
    /\ InitRun
    /\ flow = "dynamic"
    /\ logDir = TRUE
    /\ dirs = {TARGET_FOLDER}
    /\ files = [p \in Paths |-> Absent]
    /\ cache = {}
    /\ logFile = EmptyBag
    /\ MODEL_FILES = <<>>
    /\ hubFiles \in SeqsUpTo(FilterNames, MaxListing)
    /\ QUANTIZATION \in FilterTags

NextFilter ==
    \/ DynamicMakedirs
    \/ DynamicStart
    \/ FetchModelFiles
    \/ FetchModelFilesRaises
    \/ NoFilesFound
    \/ DynamicEnd

SpecFilter == InitFilter /\ [][NextFilter]_vars

-----------------------------------------------------------------------------
(* Claims *)

TerminalSt(st) == st \in {"skipped", "saved", "failed"}

\* job j lives on through the step (the step is not the start of run 2)
Lives(j) == j \in DOMAIN jobs /\ j \in DOMAIN jobs' /\ run' = run

SkipLine(filename) == Line("File already exists. Skipping", Target(filename))

ErrorLine(filename) ==
    Line(IF flow = "static" THEN "Error downloading" ELSE "Failed to download",
         filename)

\* the target of job j held a file when the call was made
Existed(j) == jobs[j].pre \notin {Absent, Unset}

\* number of per-file operations the run has to make
Expected == IF flow = "static" THEN Len(MODEL_FILES) ELSE Len(quantized_files)

AllAttempted == Len(jobs) = Expected /\ \A j \in DOMAIN jobs : Terminal(j)

\* C1 as claimed: a call made while the target exists, whatever the hub fetch
\* does, leaves the target's contents unchanged, produces a "skipping" line
\* (ends in the skip branch) and performs no copy/move onto the target.
C1_Original ==
    \A j \in DOMAIN jobs :
        (Terminal(j) /\ Existed(j)) =>
            /\ files[Target(jobs[j].name)] = jobs[j].pre
            /\ jobs[j].st = "skipped"
            /\ CopiesIn(SkipLine(jobs[j].name), logFile) >= 1
            /\ ~jobs[j].checked

\* C1 amended: a call made while the target exists never passes the existence
\* check and never copies/moves; no step of it changes a file; when the hub
\* fetch has succeeded it ends skipped and writes the "skipping" line; it can
\* end failed only by the hub fetch raising, and then writes the error line.
C1_SkipsExisting ==
    [][\A j \in DOMAIN jobs :
          (Lives(j) /\ Existed(j) /\ jobs'[j] # jobs[j]) =>
              /\ files' = files
              /\ ~jobs'[j].checked
              /\ jobs'[j].st \in {"fetched", "skipped", "failed"}
              /\ jobs[j].st = "fetched" =>
                    /\ jobs'[j].st = "skipped"
                    /\ logFile' = logFile (+) SetToBag({SkipLine(jobs[j].name)})
              /\ jobs'[j].st = "failed" =>
                    /\ jobs[j].st = "downloading"
                    /\ logFile' = logFile (+) SetToBag({ErrorLine(jobs[j].name)})]_vars

C1_Witness ==
    \E j \in DOMAIN jobs :
        /\ run = 1 /\ jobs[j].pre = Old /\ jobs[j].st = "skipped"
        /\ files[Target(jobs[j].name)] = Old

\* C2 as claimed: when the target folder exists, the target path does not and
\* the hub fetch succeeds, then as the call returns the target path holds the
\* fetched content, in both flows and for names with a sub-directory.  (A
\* copy/move refused by the environment is not held against the claim.)
C2_Original ==
    [][\A j \in DOMAIN jobs :
          (/\ Lives(j)
           /\ jobs[j].st \in {"fetched", "copying"}
           /\ TerminalSt(jobs'[j].st)
           /\ jobs[j].pre = Absent
           /\ TARGET_FOLDER \in dirs
           /\ ~jobs'[j].fault)
          => files'[Target(jobs[j].name)] = Full(jobs[j].name)]_vars

\* C3: when the listing call raises, fetch_model_files returns the empty
\* sequence and the run starts no per-file download and no thread.
C3_ListingError ==
    (flow = "dynamic" /\ listing = "error") =>
        /\ quantized_files = <<>>
        /\ jobs = <<>>
        /\ joined = 0
        /\ pc \in {"nofiles", "end", "done"}

C3_Witness ==
    /\ flow = "dynamic" /\ listing = "error" /\ pc = "done"
    /\ Quantized(hubFiles, QUANTIZATION) # <<>>

\* C4: once parallel_download has returned, each of the N files has a thread
\* and every thread has reached skipped, saved or failed.
C4_JoinsAll ==
    (flow = "dynamic" /\ pc \in {"end", "done"}) => AllAttempted

C4_Witness ==
    /\ flow = "dynamic" /\ pc = "end" /\ Len(jobs) = MaxFiles
    /\ \E j, k \in DOMAIN jobs : jobs[j].st = "failed" /\ jobs[k].st = "saved"

\* the file contains the tag and ends in ".gguf", said with splits of the name
Wanted(file, tag) ==
    /\ \E a \in 0..Len(file) : \E b \in a..Len(file) : SubSeq(file, a + 1, b) = tag
    /\ \E a \in 0..Len(file) : SubSeq(file, a + 1, Len(file)) = GGUF

\* C5: the result of fetch_model_files holds exactly the listed names that
\* contain the tag and end in ".gguf", once per occurrence, in listing order.
C5_Filter ==
    listing = "ok" =>
        LET idx == {i \in DOMAIN hubFiles : Wanted(hubFiles[i], QUANTIZATION)}
            kth(k) == CHOOSE i \in idx : Cardinality({m \in idx : m <= i}) = k
        IN  /\ Len(quantized_files) = Cardinality(idx)
            /\ \A k \in DOMAIN quantized_files : quantized_files[k] = hubFiles[kth(k)]

C5_Witness ==
    /\ listing = "ok" /\ Len(hubFiles) = MaxListing
    /\ Len(quantized_files) = 1
    /\ quantized_files[1] = hubFiles[MaxListing]
    /\ StrIn(QUANTIZATION, hubFiles[1])

\* the first run ended with its listing not failed and every per-file
\* operation saved or skipped
FirstAllOk ==
    /\ first.set
    /\ first.listing # "error"
    /\ \A j \in DOMAIN first.sts : first.sts[j] \in {"saved", "skipped"}

C7_Contained ==
    /\ [](pc \notin {"done", "crashed"} => ENABLED Next)
    /\ [][/\ \A j \in DOMAIN jobs :
                (Lives(j) /\ jobs[j].st # "failed" /\ jobs'[j].st = "failed") =>
                    /\ logFile' = logFile (+) SetToBag({ErrorLine(jobs[j].name)})
                    /\ pc' = pc
                    /\ \A k \in DOMAIN jobs : k # j => jobs'[k] = jobs[k]
          /\ (pc # "done" /\ pc' = "done") => AllAttempted']_vars

C7_Witness ==
    /\ pc = "done" /\ Len(jobs) = MaxFiles
    /\ jobs[1].st = "failed" /\ jobs[1].checked
    /\ jobs[MaxFiles].st = "saved"

\* C8 as claimed: with pairwise distinct filenames, no two workers pass the
\* existence check for, or transfer a file onto, the same target path.
C8_Original ==
    (flow = "dynamic" /\ Injective(quantized_files)) =>
        \A j, k \in DOMAIN jobs :
            (j # k /\ jobs[j].checked /\ jobs[k].checked) =>
                FileTarget(jobs[j].name) # FileTarget(jobs[k].name)

\* C9 as claimed: a per-file job whose target path did not exist beforehand
\* and that ended failed leaves no file, complete or partial, at the target.
C9_Original ==
    \A j \in DOMAIN jobs :
        (jobs[j].st = "failed" /\ jobs[j].pre = Absent) =>
            files[Target(jobs[j].name)] = Absent

\* C10 as claimed: past the set-up the log directory and the target folder
\* exist, so the first log call does not fail.
C10_Original ==
    /\ pc # "setup" => (logDir /\ TARGET_FOLDER \in dirs)
    /\ pc # "crashed"

=============================================================================
